---- MODULE Spec2Model ----
(***************************************************************************)
(* Karabiner-Elements: the driver activation service                       *)
(* (krbn::kextd::kext_loader, src/core/kextd/include/kextd/kext_loader.hpp)*)
(* and the system event client                                             *)
(* (hid_system_client, src/userspace/share/hid_system_client.hpp).         *)
(*                                                                         *)
(* The two components share no state.  SpecLoader is the state machine of  *)
(* kext_loader on its dispatcher, LiveLoader the same machine with the     *)
(* timer's fairness, SpecClient the state machine of hid_system_client     *)
(* with its notification thread, one caller thread and the destructor.     *)
(***************************************************************************)
EXTENDS Integers, Sequences, FiniteSets, TLC

\* ------------------------------------------------------------------ bounds
\* Timer ticks recorded in a run of SpecLoader.
MaxTicks == 5
\* Calls of async_start in a run.
MaxStarts == 2
\* Result codes of KextManagerLoadKextWithURL are 0..MaxResultCode.
MaxResultCode == 1
\* IOServiceOpen calls in a run of SpecClient (each yields a fresh handle).
MaxOpens == 2
\* Services of the matched class the registry can report.
NumServices == 2
\* Entries of one arrival iterator.
MaxBatch == 2

\* ------------------------------------------------------- program constants
kOSReturnSuccess == 0
KERN_SUCCESS == 0
IO_OBJECT_NULL == 0

Results == 0..MaxResultCode

VARIABLES
  \* ---- kext_loader
  state_,         \* nlohmann::json state_: <<>> is {}, <<kr>> is {"kext_load_result": kr}
  timer_,         \* TRUE while timer_ is started
  vmAlive,        \* the version_monitor behind weak_version_monitor_ is alive
  queue,          \* functions of this client waiting on the shared dispatcher
  attached,       \* the dispatcher still runs functions of this client
  destroyed,      \* ~kext_loader has returned
  persisted,      \* <<>>: nothing handed to json_writer yet; <<doc>>: the last document
  starts,         \* history: calls of async_start
  tickCount,      \* history: timer ticks that have run
  attempts,       \* history: results of the KextManagerLoadKextWithURL calls
  firstSuccess,   \* history: tickCount of the first tick that saw success, 0 if none
  loaded,         \* history: kext_loaded emissions delivered
  lastTick,       \* history: what the most recent tick did
  tickPhase,      \* history: flips at every tick
  \* ---- hid_system_client
  subscribed,     \* service_observer_ exists (matching_dictionary_ was built)
  service_,       \* io_service_t service_
  connect_,       \* io_connect_t connect_
  openConns,      \* kernel: the connections opened and not closed
  opens,          \* kernel: IOServiceOpen calls made so far (names the next handle)
  refs,           \* kernel: references taken by IOObjectRetain(service_) and not released
  overRelease,    \* kernel: IOObjectRelease(service_) ran with no such reference left
  npc,            \* notification thread: position
  batch,          \* notification thread: the iterator being drained
  pos,            \* notification thread: entries of batch already taken
  cb,             \* history: the callback in progress on the notification thread
  lastOpen,       \* history: the most recent IOServiceOpen call
  cpc,            \* caller thread: position
  call,           \* history: the caller operation in progress or last finished
  dpc             \* destructor thread: position

loaderVars == <<state_, timer_, vmAlive, queue, attached, destroyed, persisted, starts,
                tickCount, attempts, firstSuccess, loaded, lastTick, tickPhase>>
clientVars == <<subscribed, service_, connect_, openConns, opens, refs, overRelease,
                npc, batch, pos, cb, lastOpen, cpc, call, dpc>>
vars == <<loaderVars, clientVars>>

\* ================================================================ kext_loader

NoTick == [url |-> FALSE, checked |-> FALSE, wrote |-> FALSE, stopped |-> FALSE]

\* kext_loader::kext_loader: timer_ not started, state_ = json::object().
InitLoader ==
  /\ state_ = <<>>
  /\ timer_ = FALSE
  /\ vmAlive = TRUE
  /\ queue = <<>>
  /\ attached = TRUE
  /\ destroyed = FALSE
  /\ persisted = <<>>
  /\ starts = 0
  /\ tickCount = 0
  /\ attempts = <<>>
  /\ firstSuccess = 0
  /\ loaded = 0
  /\ lastTick = NoTick
  /\ tickPhase = 0

\* dispatcher_client::enqueue_to_dispatcher: the function waits in the dispatcher's
\* queue; the dispatcher runs the functions of a client in order, while attached.
Enqueued(q, f) == Append(q, f)

\* json_writer::async_save_to_file(state_, ...): the document handed over.
write_state_to_file(doc) == <<doc>>

\* async_start: enqueue the start function.
AsyncStart ==
  /\ UNCHANGED clientVars
  /\ ~destroyed
  /\ starts < MaxStarts
  /\ starts' = starts + 1
  /\ queue' = Enqueued(queue, "start")
  /\ UNCHANGED <<state_, timer_, vmAlive, attached, destroyed, persisted, tickCount,
                 attempts, firstSuccess, loaded, lastTick, tickPhase>>

\* The function async_start enqueued: write the state, start the timer.
RunStart ==
  /\ UNCHANGED clientVars
  /\ attached
  /\ queue # <<>>
  /\ Head(queue) = "start"
  /\ queue' = Tail(queue)
  /\ persisted' = write_state_to_file(state_)
  /\ timer_' = TRUE
  /\ UNCHANGED <<state_, vmAlive, attached, destroyed, starts, tickCount, attempts,
                 firstSuccess, loaded, lastTick, tickPhase>>

\* The tick without the timer_.stop() of the success branch.
TickBodyNoStop(kr, url) ==
  /\ IF url
       THEN /\ state_' = <<kr>>
            /\ persisted' = write_state_to_file(state_')
            /\ timer_' = timer_
            /\ queue' = IF kr = kOSReturnSuccess THEN Enqueued(queue, "loaded") ELSE queue
       ELSE UNCHANGED <<state_, persisted, timer_, queue>>
  /\ lastTick' = [url |-> url, checked |-> vmAlive, wrote |-> url, stopped |-> FALSE]

\* The tick with the state written before the result is recorded in it.
TickBodyStaleWrite(kr, url) ==
  /\ IF url
       THEN /\ state_' = <<kr>>
            /\ persisted' = write_state_to_file(state_)
            /\ timer_' = IF kr = kOSReturnSuccess THEN FALSE ELSE timer_
            /\ queue' = IF kr = kOSReturnSuccess THEN Enqueued(queue, "loaded") ELSE queue
       ELSE UNCHANGED <<state_, persisted, timer_, queue>>
  /\ lastTick' = [url |-> url, checked |-> vmAlive, wrote |-> url,
                  stopped |-> url /\ kr = kOSReturnSuccess]

\* The tick that gives up on a non-success result.
TickBodyGiveUp(kr, url) ==
  /\ IF url
       THEN /\ state_' = <<kr>>
            /\ persisted' = write_state_to_file(state_')
            /\ timer_' = FALSE
            /\ queue' = IF kr = kOSReturnSuccess THEN Enqueued(queue, "loaded") ELSE queue
       ELSE UNCHANGED <<state_, persisted, timer_, queue>>
  /\ lastTick' = [url |-> url, checked |-> vmAlive, wrote |-> url, stopped |-> url]

\* The tick that takes an unresolved URL for a final failure and stops the timer.
TickBodySkipStopsTimer(kr, url) ==
  /\ IF url
       THEN /\ state_' = <<kr>>
            /\ persisted' = write_state_to_file(state_')
            /\ timer_' = IF kr = kOSReturnSuccess THEN FALSE ELSE timer_
            /\ queue' = IF kr = kOSReturnSuccess THEN Enqueued(queue, "loaded") ELSE queue
       ELSE /\ timer_' = FALSE
            /\ UNCHANGED <<state_, persisted, queue>>
  /\ lastTick' = [url |-> url, checked |-> vmAlive, wrote |-> url,
                  stopped |-> ~url \/ kr = kOSReturnSuccess]

\* The tick that does all its work inside the test of weak_version_monitor_.lock().
TickBodyNeedsMonitor(kr, url) ==
  /\ IF url /\ vmAlive
       THEN /\ state_' = <<kr>>
            /\ persisted' = write_state_to_file(state_')
            /\ timer_' = IF kr = kOSReturnSuccess THEN FALSE ELSE timer_
            /\ queue' = IF kr = kOSReturnSuccess THEN Enqueued(queue, "loaded") ELSE queue
       ELSE UNCHANGED <<state_, persisted, timer_, queue>>
  /\ lastTick' = [url |-> url, checked |-> vmAlive, wrote |-> url /\ vmAlive,
                  stopped |-> url /\ vmAlive /\ kr = kOSReturnSuccess]

\* The timer's function: kr is the result of KextManagerLoadKextWithURL, url is
\* whether make_file_path_url yields a URL.
TickBody(kr, url) ==
  /\ IF url
       THEN /\ state_' = <<kr>>
            /\ persisted' = write_state_to_file(state_')
            /\ timer_' = IF kr = kOSReturnSuccess THEN FALSE ELSE timer_
            /\ queue' = IF kr = kOSReturnSuccess THEN Enqueued(queue, "loaded") ELSE queue
       ELSE UNCHANGED <<state_, persisted, timer_, queue>>
  /\ lastTick' = [url |-> url, checked |-> vmAlive, wrote |-> url,
                  stopped |-> url /\ kr = kOSReturnSuccess]

\* The history of a tick.
TickHistory(kr, url) ==
  /\ tickCount' = tickCount + 1
  /\ attempts' = IF url THEN Append(attempts, kr) ELSE attempts
  /\ firstSuccess' = IF url /\ kr = kOSReturnSuccess /\ firstSuccess = 0
                       THEN tickCount + 1 ELSE firstSuccess

\* A timer tick: the timer's function runs on the dispatcher while the timer is
\* started and the client attached.
TickStep(kr, url) ==
  /\ UNCHANGED clientVars
  /\ timer_
  /\ attached
  /\ TickBody(kr, url)
  /\ tickPhase' = 1 - tickPhase
  /\ UNCHANGED <<vmAlive, attached, destroyed, starts, loaded>>

Tick ==
  /\ tickCount < MaxTicks
  /\ \E kr \in Results, url \in BOOLEAN :
       /\ TickStep(kr, url)
       /\ TickHistory(kr, url)

\* A timer tick of the unbounded run: the tick history is not kept.
TickLive ==
  \E kr \in Results, url \in BOOLEAN :
    /\ TickStep(kr, url)
    /\ UNCHANGED <<tickCount, attempts, firstSuccess>>

\* The function the success branch enqueued: kext_loaded().
RunLoaded ==
  /\ UNCHANGED clientVars
  /\ attached
  /\ queue # <<>>
  /\ Head(queue) = "loaded"
  /\ queue' = Tail(queue)
  /\ loaded' = loaded + 1
  /\ UNCHANGED <<state_, timer_, vmAlive, attached, destroyed, persisted, starts,
                 tickCount, attempts, firstSuccess, lastTick, tickPhase>>

\* The destructor that stops the timer without detaching from the dispatcher.
DestructorBodyNoDetach ==
  /\ timer_' = FALSE
  /\ UNCHANGED <<attached, queue>>

\* dispatcher_client::detach_from_dispatcher: the client is detached, so that the
\* dispatcher runs none of the functions still queued for it, then the given
\* function runs on the dispatcher and the call returns.
DetachFromDispatcher ==
  /\ attached' = FALSE
  /\ queue' = <<>>

\* ~kext_loader: detach_from_dispatcher([this] { timer_.stop(); }).
DestructorBody ==
  /\ DetachFromDispatcher
  /\ timer_' = FALSE

Destructor ==
  /\ UNCHANGED clientVars
  /\ ~destroyed
  /\ DestructorBody
  /\ destroyed' = TRUE
  /\ UNCHANGED <<state_, vmAlive, persisted, starts, tickCount, attempts, firstSuccess,
                 loaded, lastTick, tickPhase>>

\* The owner of the version_monitor drops it; weak_version_monitor_ expires.
VersionMonitorDestroyed ==
  /\ UNCHANGED clientVars
  /\ vmAlive
  /\ vmAlive' = FALSE
  /\ UNCHANGED <<state_, timer_, queue, attached, destroyed, persisted, starts,
                 tickCount, attempts, firstSuccess, loaded, lastTick, tickPhase>>

NextLoader ==
  \/ AsyncStart
  \/ RunStart
  \/ Tick
  \/ RunLoaded
  \/ Destructor
  \/ VersionMonitorDestroyed

\* ========================================================== hid_system_client

Services == 1..NumServices

\* An io_connect_t: the service it was opened on and the open call that made it.
NullConn == [svc |-> IO_OBJECT_NULL, n |-> 0]

\* What an io_iterator_t can yield: services of the class, each once.
Batches ==
  {b \in UNION {[1..n -> Services] : n \in 0..MaxBatch} :
     \A i, j \in DOMAIN b : b[i] = b[j] => i = j}

NoCallback == [kind |-> "none", disc |-> FALSE, opened |-> {}, openFailed |-> FALSE,
               listed |-> FALSE]
NoCall == [op |-> "none", sawNull |-> FALSE, osCalled |-> FALSE, osOk |-> FALSE,
           stale |-> FALSE, handle |-> NullConn, ret |-> "void"]
PostOps == {"post_modifier_flags", "post_key", "post_aux_control_button"}

\* hid_system_client::hid_system_client: service_ and connect_ are IO_OBJECT_NULL;
\* the observer is made only if IOServiceNameMatching gave a dictionary.
InitClient ==
  /\ subscribed \in BOOLEAN
  /\ service_ = IO_OBJECT_NULL
  /\ connect_ = NullConn
  /\ openConns = {}
  /\ opens = 0
  /\ refs = 0
  /\ overRelease = FALSE
  /\ npc = "idle"
  /\ batch = <<>>
  /\ pos = 0
  /\ cb = NoCallback
  /\ lastOpen = [svc |-> IO_OBJECT_NULL, ok |-> FALSE]
  /\ cpc = "idle"
  /\ call = NoCall
  /\ dpc = "none"

\* The arrival loop's body with the "use first matched service" test dropped.
MatchedIterationAlwaysOpens(service, kr) ==
  /\ service_' = service
  /\ refs' = refs + 1
  /\ opens' = opens + 1
  /\ connect_' = IF kr = KERN_SUCCESS THEN [svc |-> service, n |-> opens + 1]
                                      ELSE NullConn
  /\ openConns' = IF kr = KERN_SUCCESS
                    THEN openConns \cup {[svc |-> service, n |-> opens + 1]}
                    ELSE openConns
  /\ lastOpen' = [svc |-> service, ok |-> kr = KERN_SUCCESS]
  /\ cb' = [cb EXCEPT !.opened = @ \cup {pos + 1},
                      !.openFailed = @ \/ kr # KERN_SUCCESS]

\* The arrival loop's body without the reset of connect_ after a failed open:
\* connect_ keeps what IOServiceOpen left in it.
MatchedIterationKeepsFailedHandle(service, kr) ==
  IF service_ = IO_OBJECT_NULL
    THEN /\ service_' = service
         /\ refs' = refs + 1
         /\ opens' = opens + 1
         /\ connect_' = [svc |-> service, n |-> opens + 1]
         /\ openConns' = IF kr = KERN_SUCCESS
                           THEN openConns \cup {[svc |-> service, n |-> opens + 1]}
                           ELSE openConns
         /\ lastOpen' = [svc |-> service, ok |-> kr = KERN_SUCCESS]
         /\ cb' = [cb EXCEPT !.opened = @ \cup {pos + 1},
                             !.openFailed = @ \/ kr # KERN_SUCCESS]
    ELSE UNCHANGED <<service_, refs, opens, connect_, openConns, lastOpen, cb>>

\* matched_callback, one turn of the loop under mutex_: service is what
\* IOIteratorNext gave, kr the result of IOServiceOpen if it is called.
MatchedIteration(service, kr) ==
  IF service_ = IO_OBJECT_NULL
    THEN /\ service_' = service
         /\ refs' = refs + 1
         /\ opens' = opens + 1
         /\ connect_' = IF kr = KERN_SUCCESS THEN [svc |-> service, n |-> opens + 1]
                                             ELSE NullConn
         /\ openConns' = IF kr = KERN_SUCCESS
                           THEN openConns \cup {[svc |-> service, n |-> opens + 1]}
                           ELSE openConns
         /\ lastOpen' = [svc |-> service, ok |-> kr = KERN_SUCCESS]
         /\ cb' = [cb EXCEPT !.opened = @ \cup {pos + 1},
                             !.openFailed = @ \/ kr # KERN_SUCCESS]
    ELSE UNCHANGED <<service_, refs, opens, connect_, openConns, lastOpen, cb>>

\* close_connection: IOServiceClose(connect_) and connect_ = IO_OBJECT_NULL if a
\* connection is held; IOObjectRelease(service_) if service_ is set; service_ is
\* left as it is.
close_connection ==
  /\ connect_' = NullConn
  /\ openConns' = openConns \ {connect_}
  /\ service_' = service_
  /\ refs' = IF service_ # IO_OBJECT_NULL /\ refs > 0 THEN refs - 1 ELSE refs
  /\ overRelease' = (overRelease \/ (service_ # IO_OBJECT_NULL /\ refs = 0))

\* The observer delivers an arrival iterator: matched_callback starts draining it.
ArrivalNotify ==
  /\ UNCHANGED loaderVars
  /\ subscribed
  /\ dpc # "done"
  /\ npc = "idle"
  /\ \E b \in Batches : batch' = b
  /\ pos' = 0
  /\ npc' = "matched"
  /\ cb' = [kind |-> "arrival", disc |-> connect_ = NullConn, opened |-> {},
            openFailed |-> FALSE, listed |-> FALSE]
  /\ UNCHANGED <<subscribed, service_, connect_, openConns, opens, refs, overRelease,
                 lastOpen, cpc, call, dpc>>

\* matched_callback takes the next entry of the iterator.
MatchedStep ==
  /\ UNCHANGED loaderVars
  /\ npc = "matched"
  /\ dpc # "done"
  /\ pos < Len(batch)
  /\ service_ = IO_OBJECT_NULL => opens < MaxOpens
  /\ \E kr \in {KERN_SUCCESS, 1} : MatchedIteration(batch[pos + 1], kr)
  /\ pos' = pos + 1
  /\ UNCHANGED <<subscribed, overRelease, npc, batch, cpc, call, dpc>>

\* The iterator is drained: matched_callback returns (and with it
\* terminated_callback, when this was its replay).
MatchedReturn ==
  /\ UNCHANGED loaderVars
  /\ npc = "matched"
  /\ dpc # "done"
  /\ pos = Len(batch)
  /\ npc' = "idle"
  /\ UNCHANGED <<subscribed, service_, connect_, openConns, opens, refs, overRelease,
                 batch, pos, cb, lastOpen, cpc, call, dpc>>

\* terminated_callback that refreshes the connection whether or not the iterator
\* had an entry.
TerminatedBodyAlwaysRefreshes(found) ==
  /\ close_connection
  /\ npc' = "requery"

\* terminated_callback up to the re-query: found is whether the iterator had an
\* entry; without one the callback returns, with one it runs close_connection
\* under mutex_ and goes on to the re-query.
TerminatedBody(found) ==
  IF found
    THEN /\ close_connection
         /\ npc' = "requery"
    ELSE UNCHANGED <<connect_, openConns, service_, refs, overRelease, npc>>

\* The observer delivers a termination iterator.
TerminatedNotify ==
  /\ UNCHANGED loaderVars
  /\ subscribed
  /\ dpc # "done"
  /\ npc = "idle"
  /\ \E found \in BOOLEAN :
       /\ TerminatedBody(found)
       /\ cb' = [kind |-> IF found THEN "terminated" ELSE "terminated_empty",
                 disc |-> TRUE, opened |-> {}, openFailed |-> FALSE, listed |-> FALSE]
  /\ UNCHANGED <<subscribed, opens, batch, pos, lastOpen, cpc, call, dpc>>

\* terminated_callback's IOServiceGetMatchingServices: an error ends the callback,
\* an iterator is replayed through matched_callback.
Requery ==
  /\ UNCHANGED loaderVars
  /\ npc = "requery"
  /\ dpc # "done"
  /\ \E kr \in {KERN_SUCCESS, 1}, b \in Batches :
       IF kr # KERN_SUCCESS
         THEN /\ npc' = "idle"
              /\ UNCHANGED <<batch, pos, cb>>
         ELSE /\ npc' = "matched"
              /\ batch' = b
              /\ pos' = 0
              /\ cb' = [cb EXCEPT !.disc = (connect_ = NullConn), !.listed = (b # <<>>)]
  /\ UNCHANGED <<subscribed, service_, connect_, openConns, opens, refs, overRelease,
                 lastOpen, cpc, call, dpc>>

\* post_event without the test of connect_.
PostEventUnchecked(op, kr) ==
  call' = [op |-> op, sawNull |-> connect_ = NullConn, osCalled |-> TRUE,
           osOk |-> kr = KERN_SUCCESS,
           stale |-> (connect_ # NullConn /\ connect_ \notin openConns),
           handle |-> connect_, ret |-> "void"]

\* post_event under mutex_: kr is the result of IOHIDPostEvent if it is called.
PostEvent(op, kr) ==
  call' = IF connect_ = NullConn
            THEN [op |-> op, sawNull |-> TRUE, osCalled |-> FALSE, osOk |-> FALSE,
                  stale |-> FALSE, handle |-> NullConn, ret |-> "void"]
            ELSE [op |-> op, sawNull |-> FALSE, osCalled |-> TRUE,
                  osOk |-> kr = KERN_SUCCESS,
           stale |-> (connect_ # NullConn /\ connect_ \notin openConns),
                  handle |-> connect_, ret |-> "void"]

\* post_modifier_flags, post_key (both types), post_aux_control_button.
Post ==
  /\ UNCHANGED loaderVars
  /\ cpc = "idle"
  /\ dpc = "none"
  /\ \E op \in PostOps, kr \in {KERN_SUCCESS, 1} : PostEvent(op, kr)
  /\ UNCHANGED <<subscribed, service_, connect_, openConns, opens, refs, overRelease,
                 npc, batch, pos, cb, lastOpen, cpc, dpc>>

\* get_modifier_lock_state / set_modifier_lock_state up to the test of connect_,
\* which they read without mutex_.
LockStateCheck(op) ==
  IF connect_ = NullConn
    THEN /\ call' = [op |-> op, sawNull |-> TRUE, osCalled |-> FALSE, osOk |-> FALSE,
                     stale |-> FALSE, handle |-> NullConn,
                     ret |-> IF op = "get_caps_lock_state" THEN "none" ELSE "false"]
         /\ cpc' = "idle"
    ELSE /\ call' = [op |-> op, sawNull |-> FALSE, osCalled |-> FALSE, osOk |-> FALSE,
                     stale |-> FALSE, handle |-> connect_, ret |-> "pending"]
         /\ cpc' = "os_call"

\* get_caps_lock_state / set_caps_lock_state begin.
LockStateBegin ==
  /\ UNCHANGED loaderVars
  /\ cpc = "idle"
  /\ dpc = "none"
  /\ \E op \in {"get_caps_lock_state", "set_caps_lock_state"} : LockStateCheck(op)
  /\ UNCHANGED <<subscribed, service_, connect_, openConns, opens, refs, overRelease,
                 npc, batch, pos, cb, lastOpen, dpc>>

\* The IOHIDGetModifierLockState / IOHIDSetModifierLockState call and the return:
\* h is the value of connect_ the call passes (the one tested, or the one there now),
\* kr the call's result, value what a bool the call may have left unset holds.
LockStateCall(h, kr, value) ==
  call' = [call EXCEPT
             !.osCalled = TRUE,
             !.osOk = (kr = KERN_SUCCESS),
             !.stale = (h # NullConn /\ h \notin openConns),
             !.handle = h,
             !.ret = IF call.op = "get_caps_lock_state"
                       THEN value
                       ELSE IF kr = KERN_SUCCESS THEN "true" ELSE "false"]

LockStateEnd ==
  /\ UNCHANGED loaderVars
  /\ cpc = "os_call"
  /\ \E h \in {call.handle, connect_}, kr \in {KERN_SUCCESS, 1},
        value \in {"true", "false"} : LockStateCall(h, kr, value)
  /\ cpc' = "idle"
  /\ UNCHANGED <<subscribed, service_, connect_, openConns, opens, refs, overRelease,
                 npc, batch, pos, cb, lastOpen, dpc>>

\* ~hid_system_client, the body: close_connection (without mutex_), CFRelease.
DestructorClose ==
  /\ UNCHANGED loaderVars
  /\ dpc = "none"
  /\ close_connection
  /\ dpc' = "closed"
  /\ UNCHANGED <<subscribed, opens, npc, batch, pos, cb, lastOpen, cpc, call>>

\* ~hid_system_client, the members: service_observer_ goes after the body.
DestructorMembers ==
  /\ UNCHANGED loaderVars
  /\ dpc = "closed"
  /\ dpc' = "done"
  /\ UNCHANGED <<subscribed, service_, connect_, openConns, opens, refs, overRelease,
                 npc, batch, pos, cb, lastOpen, cpc, call>>

NextClient ==
  \/ ArrivalNotify
  \/ MatchedStep
  \/ MatchedReturn
  \/ TerminatedNotify
  \/ Requery
  \/ Post
  \/ LockStateBegin
  \/ LockStateEnd
  \/ DestructorClose
  \/ DestructorMembers

\* ============================================================ specifications

Init == InitLoader /\ InitClient

SpecLoader == Init /\ [][NextLoader]_vars

\* The run without a bound on the ticks.  The dispatcher runs what is queued and
\* the timer fires while it is started.
NextLive ==
  \/ AsyncStart
  \/ RunStart
  \/ TickLive
  \/ RunLoaded
  \/ Destructor
  \/ VersionMonitorDestroyed

LiveLoader ==
  /\ Init
  /\ [][NextLive]_vars
  /\ WF_vars(RunStart)
  /\ WF_vars(RunLoaded)
  /\ WF_vars(TickLive)

SpecClient == Init /\ [][NextClient]_vars

\* ================================================================== claims

\* C1: with one async_start, once a tick's activation call returns
\* kOSReturnSuccess no later tick runs (the tick count stays that of the
\* successful tick and the timer is stopped), kext_loaded is never emitted
\* before a success nor more than once, and it has been emitted exactly once as
\* soon as the dispatcher has run what the successful tick enqueued.
C1_SuccessStopsTimerAndSignalsOnce ==
  starts <= 1 =>
    /\ firstSuccess # 0 => (tickCount = firstSuccess /\ ~timer_)
    /\ firstSuccess = 0 => loaded = 0
    /\ loaded <= 1
    /\ (firstSuccess # 0 /\ queue = <<>> /\ ~destroyed) => loaded = 1

\* C1's scenario: four ticks returning 0x1, a fifth returning 0; five ticks, one
\* kext_loaded, the recorded and persisted result is 0, the timer is stopped.
C1_Witness ==
  /\ starts = 1
  /\ attempts = <<1, 1, 1, 1, kOSReturnSuccess>>
  /\ tickCount = 5
  /\ firstSuccess = 5
  /\ loaded = 1
  /\ ~timer_
  /\ state_ = <<kOSReturnSuccess>>
  /\ persisted = <<state_>>

\* C5: what was last handed to persistence is the state record, and the state
\* record holds no result before the first activation attempt and the result of
\* the most recent attempt after it.
C5_PersistedIsLastAttempt ==
  /\ persisted # <<>> => persisted = <<state_>>
  /\ attempts = <<>> => state_ = <<>>
  /\ attempts # <<>> => /\ state_ = <<attempts[Len(attempts)]>>
                        /\ persisted = <<state_>>

\* C5's case: a failed attempt and then a successful one, each written out.
C5_Witness ==
  /\ Len(attempts) >= 2
  /\ attempts[Len(attempts) - 1] # kOSReturnSuccess
  /\ attempts[Len(attempts)] = kOSReturnSuccess
  /\ persisted = <<(<<kOSReturnSuccess>>)>>

\* The state record holds a non-success result: the last attempt failed.
Retrying == attached /\ Len(state_) = 1 /\ state_[1] # kOSReturnSuccess

\* The timer is stopped after a successful attempt.
Activated == ~timer_ /\ state_ = <<kOSReturnSuccess>>

\* A tick whose activation call returns kOSReturnSuccess.
TickSucceeds ==
  /\ TickStep(kOSReturnSuccess, TRUE)
  /\ UNCHANGED <<tickCount, attempts, firstSuccess>>

\* C9: while the last attempt's result is a non-success code and the service is
\* not destroyed, another tick always follows; and if the operating system
\* returns success to an attempt whenever attempts keep being made, a started
\* service is eventually activated (or destroyed).
C9_RetriesUntilSuccess ==
  /\ \A p \in {0, 1} : (Retrying /\ tickPhase = p) ~> (tickPhase # p \/ ~attached)
  /\ WF_vars(TickSucceeds) => ((timer_ /\ attached) ~> (Activated \/ ~attached))

\* C9's case: one async_start, an even number of ticks, the last one successful:
\* the ticks before it did not succeed and were each followed by another.
C9_Witness ==
  /\ starts = 1
  /\ Activated
  /\ tickPhase = 0
  /\ loaded = 1

\* C10: once the destructor has returned, no tick body runs and no kext_loaded
\* emission is delivered.
C10_NothingRunsAfterDestruction ==
  [][destroyed => (tickPhase' = tickPhase /\ loaded' = loaded)]_vars

\* C10's case: the destructor overtook the emission a successful tick had
\* enqueued; the emission was never delivered.
C10_Witness ==
  /\ destroyed
  /\ firstSuccess # 0
  /\ loaded = 0
  /\ ~timer_
  /\ queue = <<>>

\* C11: a tick in which the install-path URL is not resolved makes no activation
\* call, leaves the state record and what was handed to persistence as they
\* were, writes nothing, enqueues no kext_loaded and leaves the timer started.
C11_UnresolvedUrlSkipsAttempt ==
  [][(tickPhase' # tickPhase /\ ~lastTick'.url) =>
       /\ UNCHANGED <<state_, persisted, queue, attempts, loaded, firstSuccess>>
       /\ ~lastTick'.wrote
       /\ ~lastTick'.stopped
       /\ timer_']_vars

\* C11's case: a failed attempt, then a tick without a URL; the record still
\* holds the failed attempt's result and the timer is still started.
C11_Witness ==
  /\ tickCount = 2
  /\ ~lastTick.url
  /\ attempts = <<1>>
  /\ state_ = <<1>>
  /\ persisted = <<state_>>
  /\ timer_

Waiting(q, f) == Cardinality({i \in DOMAIN q : q[i] = f})

C18_VersionCheckOnlyIfAlive ==
  [][tickPhase' # tickPhase =>
       /\ lastTick'.checked = vmAlive
       /\ lastTick'.url =>
            /\ Len(attempts') = Len(attempts) + 1
            /\ state_' = <<attempts'[Len(attempts')]>>
            /\ persisted' = <<state_'>>
            /\ lastTick'.wrote
            /\ lastTick'.stopped = (state_' = <<kOSReturnSuccess>>)
            /\ timer_' = (state_' # <<kOSReturnSuccess>>)
            /\ Waiting(queue', "loaded") - Waiting(queue, "loaded")
                 = IF state_' = <<kOSReturnSuccess>> THEN 1 ELSE 0]_vars

\* C18's case: the version monitor is gone, a tick succeeded all the same and
\* its kext_loaded was delivered.
C18_Witness ==
  /\ ~vmAlive
  /\ lastTick.url
  /\ ~lastTick.checked
  /\ lastTick.stopped
  /\ state_ = <<kOSReturnSuccess>>
  /\ loaded = 1

\* C2: every connection that is open is the one connect_ holds: none is opened
\* while one is held and none is overwritten while open.
C2_AtMostOneOpenConnection ==
  /\ openConns \subseteq {connect_}
  /\ Cardinality(openConns) <= 1

\* C2's case: a batch of two entries was drained while a connection was held.
C2_Witness ==
  /\ npc = "matched"
  /\ cb.kind = "arrival"
  /\ ~cb.disc
  /\ pos = 2
  /\ openConns = {connect_}

\* C3: when terminated_callback returns after a termination with an entry, a
\* re-query that listed a service and no failed open, the client holds a
\* connection.
C3_ReconnectsAfterTermination ==
  (/\ npc = "matched"
   /\ pos = Len(batch)
   /\ cb.kind = "terminated"
   /\ cb.listed
   /\ ~cb.openFailed
   /\ dpc = "none") => connect_ # NullConn

\* C4: no caller operation passes to the post/get/set primitive a connection
\* handle that a callback has closed meanwhile.
C4_NoClosedHandleReachesOS ==
  dpc = "none" => ~call.stale

\* C6: an arrival batch of two or more entries that began with no connection
\* held had IOServiceOpen called on its first entry and on no other, and a
\* successful open made that entry the connection.
C6_FirstOfBatchIsOpened ==
  (/\ npc = "matched"
   /\ pos = Len(batch)
   /\ Len(batch) >= 2
   /\ cb.disc
   /\ dpc = "none") =>
     /\ cb.opened = {1}
     /\ ~cb.openFailed => connect_.svc = batch[1]

\* C7: a held connection handle belongs to the held service handle and comes
\* from the most recent open call, which succeeded; after a failed open no
\* connection handle is held.
C7_ConnectionNeedsOpenedService ==
  /\ connect_ # NullConn =>
       /\ service_ # IO_OBJECT_NULL
       /\ connect_.svc = service_
       /\ lastOpen = [svc |-> service_, ok |-> TRUE]
  /\ (lastOpen.svc # IO_OBJECT_NULL /\ ~lastOpen.ok) => connect_ = NullConn

\* C7's case: a connection is held and a later entry has been drained.
C7_Witness ==
  /\ connect_ # NullConn
  /\ lastOpen.ok
  /\ pos = 2
  /\ batch[2] # service_

\* What an operation returns when it finds no connection.
NotConnectedResult(op) ==
  CASE op = "get_caps_lock_state" -> "none"
    [] op = "set_caps_lock_state" -> "false"
    [] OTHER -> "void"

\* C8: an operation that finds no connection held calls no post/get/set
\* primitive and returns at once: absent for get_caps_lock_state, false for
\* set_caps_lock_state, nothing for the posts; and no caller operation changes
\* the connection state.
C8_DisconnectedOperationsFail ==
  /\ [](call.sawNull => (/\ ~call.osCalled
                         /\ cpc = "idle"
                         /\ call.ret = NotConnectedResult(call.op)))
  /\ [][call' # call => UNCHANGED <<service_, connect_, openConns>>]_vars

\* C8's case: set_caps_lock_state after a termination closed the connection.
C8_Witness ==
  /\ call.op = "set_caps_lock_state"
  /\ call.sawNull
  /\ call.ret = "false"
  /\ service_ # IO_OBJECT_NULL
  /\ cb.kind = "terminated"

\* C12: an operation whose OS call on the connection returned a non-success code
\* returns what it returns without a connection: absent for
\* get_caps_lock_state, false for set_caps_lock_state, nothing for a post.
C12_FailedOsCallReportsFailure ==
  (cpc = "idle" /\ call.osCalled /\ ~call.osOk) =>
    call.ret = NotConnectedResult(call.op)

\* C13: when the destructor has finished and no callback is running, no
\* connection is open.
C13_NoConnectionAfterDestruction ==
  (dpc = "done" /\ npc = "idle") => openConns = {}

\* C14: between terminated_callback's close_connection and its re-query, both
\* the connection handle and the service handle are null.
C14_HandlesClearedBeforeRequery ==
  npc = "requery" => (connect_ = NullConn /\ service_ = IO_OBJECT_NULL)

\* C15: an arrival entry taken while no connection is held is retained as
\* service_ and IOServiceOpen is called on it.
C15_OpensWheneverDisconnected ==
  [][(npc = "matched" /\ pos' = pos + 1 /\ connect_ = NullConn /\ dpc = "none") =>
       (opens' = opens + 1 /\ service_' = batch[pos + 1])]_vars

\* C17: a termination notification whose iterator has no entry changes neither
\* handle, closes nothing, releases nothing and issues no re-query.
C17_EmptyTerminationIsNoOp ==
  [][(npc = "idle" /\ cb'.kind = "terminated_empty" /\ cb' # cb) =>
       (UNCHANGED <<service_, connect_, openConns, opens, refs, overRelease>>
        /\ npc' = "idle")]_vars

\* C17's case: an empty termination was delivered to a connected client, which
\* is still connected.
C17_Witness ==
  /\ cb.kind = "terminated_empty"
  /\ npc = "idle"
  /\ connect_ # NullConn
  /\ openConns = {connect_}
  /\ refs = 1
  /\ dpc = "none"

\* C19: IOObjectRelease(service_) never runs without a reference taken by
\* IOObjectRetain(service_) left to release, and after the destruction no such
\* reference is left.
C19_ReleasedOncePerRetain ==
  /\ ~overRelease
  /\ (dpc = "done" /\ npc = "idle") => refs = 0

====
